---------------------------- MODULE Spec2Model ----------------------------
(***************************************************************************)
(* A model of package bitstream (src/bitstream.go): a growable, MSB-first  *)
(* bit buffer with uint / big.Int / base32 codecs on top of AppendBits.    *)
(*                                                                         *)
(* Go values are represented as follows.                                   *)
(*   byte      a number in 0..255; shifts truncate to 8 bits               *)
(*   uint64    a function 0..63 -> {0,1}, index i carrying weight 2^i      *)
(*             (TLC's integers are 32 bits wide, a uint64 is not)          *)
(*   []byte    a sequence of bytes; Go index i is TLA+ index i+1           *)
(*   *big.Int  a natural number (only magnitudes below 2^24 are drawn)     *)
(*   string    a sequence of character codes                               *)
(*   BitStream a record [nextBitIndex, storeIsNil, backingStore]           *)
(***************************************************************************)
EXTENDS Integers, Sequences, FiniteSets, TLC

\* ------------------------------------------------------------------ bytes

\* Go index i of a slice
At(seq, i) == seq[i + 1]

\* a zero-filled slice, make([]byte, n)
MakeBytes(n) == [k \in 1..n |-> 0]

\* copy(dst, src): the first min(len(dst), len(src)) bytes of src over dst
CopyBytes(dst, src) ==
    [k \in 1..Len(dst) |-> IF k <= Len(src) THEN src[k] ELSE dst[k]]

Min(a, b) == IF a < b THEN a ELSE b

\* F of the value of e; e is evaluated once, whatever F does with it
Bind(e, F(_)) == CHOOSE v \in {F(x) : x \in {e}} : TRUE

\* bit j (weight 2^j) of byte b
BitOf(b, j) == (b \div (2 ^ j)) % 2

\* the byte whose bit j is f[j]
ByteOfBits(f) ==
    f[0] + 2 * f[1] + 4 * f[2] + 8 * f[3] + 16 * f[4] + 32 * f[5] + 64 * f[6] + 128 * f[7]

\* a | b on bytes
RECURSIVE ByteOr(_, _)
ByteOr(a, b) ==
    IF a = 0 THEN b
    ELSE IF b = 0 THEN a
    ELSE (IF a % 2 = 1 \/ b % 2 = 1 THEN 1 ELSE 0) + 2 * ByteOr(a \div 2, b \div 2)

\* a & b on bytes
RECURSIVE ByteAnd(_, _)
ByteAnd(a, b) ==
    IF a = 0 \/ b = 0 THEN 0
    ELSE (a % 2) * (b % 2) + 2 * ByteAnd(a \div 2, b \div 2)

\* b << n in type byte: the bits shifted past bit 7 are lost
ByteShl(b, n) == IF n >= 8 THEN 0 ELSE (b * (2 ^ n)) % 256

\* b >> n in type byte
ByteShr(b, n) == IF n >= 8 THEN 0 ELSE b \div (2 ^ n)

\* Returns the minimum number of bytes needed to represent bitcount bits
bytesNeededForBits(bitcount) ==
    (bitcount \div 8) + (IF bitcount % 8 # 0 THEN 1 ELSE 0)

\* topNBits shifting by n instead of 8 - n
topNBitsShiftN(b, n) == ByteShr(b, n)

\* Returns the most significant n bits from b, right shifted (n <= 8)
topNBits(b, n) == ByteShr(b, 8 - n)

\* b & ((1 << n) - 1); the constant 1 takes type byte, so 1 << 8 is 0 and
\* the mask wraps to 255
bottomNBits(b, n) == ByteAnd(b, (ByteShl(1, n) + 255) % 256)

\* ----------------------------------------------------------------- uint64

WordBits == 64

U64Zero == [i \in 0..(WordBits - 1) |-> 0]

\* uint64(n) for a natural below 2^31
U64FromNat(n) == [i \in 0..(WordBits - 1) |-> IF i < 31 THEN (n \div (2 ^ i)) % 2 ELSE 0]

\* u << n with the shift count taken modulo 64, as a machine shift does
U64ShlModulo(u, n) ==
    [i \in 0..(WordBits - 1) |-> IF i >= n % WordBits THEN u[i - (n % WordBits)] ELSE 0]

\* u << n; a shift count of 64 or more gives 0
U64Shl(u, n) == [i \in 0..(WordBits - 1) |-> IF i >= n THEN u[i - n] ELSE 0]

\* u >> n
U64Shr(u, n) == [i \in 0..(WordBits - 1) |-> IF i + n < WordBits THEN u[i + n] ELSE 0]

\* u & v
U64And(u, v) == [i \in 0..(WordBits - 1) |-> u[i] * v[i]]

\* u - 1, wrapping: 0 - 1 is the all-ones word
U64Dec(u) ==
    LET ones == {i \in 0..(WordBits - 1) : u[i] = 1}
    IN  IF ones = {} THEN [i \in 0..(WordBits - 1) |-> 1]
        ELSE LET t == CHOOSE i \in ones : \A j \in ones : i <= j
             IN  [i \in 0..(WordBits - 1) |->
                     IF i < t THEN 1 ELSE IF i = t THEN 0 ELSE u[i]]

\* binary.BigEndian.PutUint64: the 8 bytes of u, most significant first
PutUint64(u) ==
    [k \in 1..8 |-> ByteOfBits([j \in 0..7 |-> u[(8 - k) * 8 + j]])]

\* binary.BigEndian.Uint64: the word of 8 bytes, most significant first
Uint64(b) == [i \in 0..(WordBits - 1) |-> BitOf(b[8 - (i \div 8)], i % 8)]

\* byte(u): the low 8 bits
U64ToByte(u) == ByteOfBits([j \in 0..7 |-> u[j]])

\* uint(u) for a word below 2^16
U64ToNat(u) == ByteOfBits([j \in 0..7 |-> u[j]]) + 256 * ByteOfBits([j \in 0..7 |-> u[8 + j]])

\* -------------------------------------------------------------- BitStream

\* first capacity of an absent backing store
InitialCapacity == 16

\* BitStream{}: no bits, no backing store
NewBitStream == [nextBitIndex |-> 0, storeIsNil |-> TRUE, backingStore |-> <<>>]

\* Returns the number of bits inserted into the stream so far
Size(s) == s.nextBitIndex

\* the result of a read: the value, or a panic
Value(v) == [panic |-> FALSE, val |-> v]
ReadPanic == [panic |-> TRUE, val |-> 0]

\* Returns the bit at a given index
BitAt(s, index) ==
    IF index >= s.nextBitIndex THEN ReadPanic
    ELSE LET byteIndex == index \div 8
             bitIndex  == index % 8
         IN  IF byteIndex >= Len(s.backingStore) THEN ReadPanic
             ELSE Value(ByteAnd(ByteShr(At(s.backingStore, byteIndex), 7 - bitIndex), 1))

\* one pass of the loop of BitsAt, for bit i; r = [result, byteIndex, shift, panic]
BitsAtStep(s, index, i, r) ==
    IF r.panic THEN r
    ELSE LET byteIndex == IF r.shift < 0 THEN r.byteIndex + 1 ELSE r.byteIndex
             shift     == IF r.shift < 0 THEN 7 ELSE r.shift
         IN  Bind(BitAt(s, index + i), LAMBDA b :
                 IF b.panic THEN [r EXCEPT !.panic = TRUE]
                 ELSE [result    |-> [r.result EXCEPT ![byteIndex + 1] =
                                         ByteOr(@, ByteShl(b.val, shift))],
                       byteIndex |-> byteIndex,
                       shift     |-> shift - 1,
                       panic     |-> FALSE])

\* for i := lo; i < hi; i++, the passes in order (the range is halved, which
\* bounds the depth of the evaluation)
RECURSIVE BitsAtLoop(_, _, _, _, _)
BitsAtLoop(s, index, lo, hi, r) ==
    IF hi <= lo THEN r
    ELSE IF hi = lo + 1 THEN BitsAtStep(s, index, lo, r)
    ELSE Bind(BitsAtLoop(s, index, lo, (lo + hi) \div 2, r), LAMBDA r2 :
             BitsAtLoop(s, index, (lo + hi) \div 2, hi, r2))

\* Returns the MSB justified size bits at given index
BitsAt(s, index, size) ==
    IF index + size > s.nextBitIndex THEN ReadPanic
    ELSE Bind(BitsAtLoop(s, index, 0, size,
                         [result    |-> MakeBytes(bytesNeededForBits(size)),
                          byteIndex |-> 0, shift |-> 7, panic |-> FALSE]),
              LAMBDA r : IF r.panic THEN ReadPanic ELSE Value(r.result))

\* Interprets the size bits at a given index as a uint64
UintAt(s, index, size) ==
    IF size > 64 THEN ReadPanic
    ELSE Bind(BitsAt(s, index, size), LAMBDA data :
             IF data.panic THEN ReadPanic
             ELSE Value(U64Shr(Uint64(CopyBytes(MakeBytes(8), data.val)), 64 - size)))

\* Interprets the 64 bits at a given index as a uint64
Uint64At(s, index) ==
    Bind(BitsAt(s, index, 64), LAMBDA data :
        IF data.panic THEN ReadPanic ELSE Value(Uint64(data.val)))

\* Returns a string representation of the bitstream: "%d" of every bit
String(s) == [k \in 1..s.nextBitIndex |-> 48 + BitAt(s, k - 1).val]

\* ToBytes without the trim: the whole backing store
ToBytesWholeStore(s) == s.backingStore

\* Returns a byte array representation of the bitstream
ToBytes(s) == CopyBytes(MakeBytes(bytesNeededForBits(Size(s))), s.backingStore)

\* ------------------------------------------------------------- AppendBits

\* the growth loop never leaves: its only variable, nextSize, repeats
Diverges == 0 - 1

\* for nextSize <= neededSize { nextSize *= 2 }
RECURSIVE GrowLoop(_, _)
GrowLoop(nextSize, neededSize) ==
    IF nextSize <= neededSize
    THEN IF nextSize * 2 = nextSize THEN Diverges
         ELSE GrowLoop(nextSize * 2, neededSize)
    ELSE nextSize

\* the growth condition with < for <=
NeedsGrowStrict(s, neededSize) == s.storeIsNil \/ Len(s.backingStore) < neededSize

\* the condition under which AppendBits replaces the backing store
NeedsGrow(s, neededSize) == s.storeIsNil \/ Len(s.backingStore) <= neededSize

\* the capacity the growth step ends with (Diverges if it never ends)
GrownSize(s, neededSize) ==
    GrowLoop(IF s.storeIsNil THEN InitialCapacity ELSE Len(s.backingStore), neededSize)

\* nextStore := make([]byte, nextSize); copy(nextStore[:], s.backingStore)
GrowStore(s, nextSize) == CopyBytes(MakeBytes(nextSize), s.backingStore)

\* s.backingStore[idx] |= v on the packer's state st; an index outside the
\* store is Go's index-out-of-range panic, which leaves st as it is by then
OrAt(st, idx, v) ==
    IF idx >= Len(st.backingStore) THEN [st EXCEPT !.oob = TRUE]
    ELSE [st EXCEPT !.backingStore[idx + 1] = ByteOr(@, v),
                    !.written = @ \cup {idx}]

\* bits[k] as the packer reads it: when bits is the receiver's own backing
\* store (AppendBitstream of a stream to itself, no growth) the read sees
\* the bytes written so far
SourceByte(st, bits, aliased, k) ==
    IF aliased THEN At(st.backingStore, k) ELSE At(bits, k)

\* one pass of the loop body, for source byte bits[k]
FullByteStep(st, bits, aliased, k, offset) ==
    IF st.oob THEN st
    ELSE Bind(SourceByte(st, bits, aliased, k), LAMBDA bt :
         Bind(OrAt(st, st.nextBitIndex \div 8, topNBits(bt, 8 - offset)), LAMBDA st1 :
             IF st1.oob THEN st1
             ELSE Bind(OrAt(st1, (st.nextBitIndex \div 8) + 1,
                            ByteShl(bottomNBits(bt, offset), 8 - offset)), LAMBDA st2 :
                      IF st2.oob THEN st2 ELSE [st2 EXCEPT !.nextBitIndex = @ + 8])))

\* for _, bt := range bits[lo:hi], the passes in order (the range is halved,
\* which bounds the depth of the evaluation)
RECURSIVE FullByteLoop(_, _, _, _, _, _)
FullByteLoop(st, bits, aliased, lo, hi, offset) ==
    IF hi <= lo THEN st
    ELSE IF hi = lo + 1 THEN FullByteStep(st, bits, aliased, lo, offset)
    ELSE Bind(FullByteLoop(st, bits, aliased, lo, (lo + hi) \div 2, offset), LAMBDA st3 :
             FullByteLoop(st3, bits, aliased, (lo + hi) \div 2, hi, offset))

\* the bottom part of the last byte, written after its top part
LastByteBottom(st2, bits, aliased, numFullBytes, topCount, bottomCount) ==
    LET bottom == bottomNBits(
                      ByteShr(SourceByte(st2, bits, aliased, numFullBytes),
                              8 - topCount - bottomCount),
                      bottomCount)
        shiftedBottom == ByteShl(bottom, 8 - bottomCount)
    IN  Bind(OrAt(st2, st2.nextBitIndex \div 8, shiftedBottom), LAMBDA st3 :
            IF st3.oob THEN st3
            ELSE [st3 EXCEPT !.nextBitIndex = @ + bottomCount])

\* Handle the last byte
LastByte(st, size, bits, aliased, numFullBytes, offset) ==
    IF size % 8 = 0 \/ st.oob THEN st
    ELSE LET bitsLeftInByte == 8 - offset
             trailingBits  == size % 8
             topCount      == Min(trailingBits, bitsLeftInByte)
             bottomCount   == trailingBits - topCount
             nextByteIndex == st.nextBitIndex \div 8
             top           == topNBits(SourceByte(st, bits, aliased, numFullBytes), topCount)
             shiftAmount   == 8 - (st.nextBitIndex % 8) - topCount
             shiftedTop    == ByteShl(top, shiftAmount)
         IN  Bind(OrAt(st, nextByteIndex, shiftedTop), LAMBDA st1 :
                 IF st1.oob THEN st1
                 ELSE Bind([st1 EXCEPT !.nextBitIndex = @ + topCount], LAMBDA st2 :
                          IF 0 < bottomCount
                          THEN LastByteBottom(st2, bits, aliased, numFullBytes,
                                              topCount, bottomCount)
                          ELSE st2))

\* what one AppendBits call did to the store: the bytes it needed, the
\* capacity after its growth step, whether the growth copy kept the old
\* bytes, and the byte indices it wrote
NoCall == [entered |-> FALSE, neededSize |-> 0, capacity |-> 0, grew |-> FALSE,
           preserved |-> TRUE, written |-> {}, aligned |-> FALSE, oob |-> FALSE]

\* the packing of AppendBits into store0, the store after the growth step
Pack(s, size, bits, aliased, neededSize, grow, store0) ==
    LET numFullBytes == size \div 8
        offset == s.nextBitIndex % 8
        st0 == [backingStore |-> store0, nextBitIndex |-> s.nextBitIndex,
                oob |-> FALSE, written |-> {}]
    IN  Bind(FullByteLoop(st0, bits, aliased, 0, numFullBytes, offset), LAMBDA st1 :
        Bind(LastByte(st1, size, bits, aliased, numFullBytes, offset), LAMBDA st2 :
            [outcome |-> IF st2.oob THEN "panic" ELSE "ok",
             s |-> [nextBitIndex |-> st2.nextBitIndex,
                    storeIsNil   |-> FALSE,
                    backingStore |-> st2.backingStore],
             call |-> [entered    |-> TRUE,
                       neededSize |-> neededSize,
                       capacity   |-> Len(store0),
                       grew       |-> grow,
                       preserved  |-> \A k \in 1..Len(s.backingStore) :
                                         k <= Len(store0) /\ store0[k] = s.backingStore[k],
                       written    |-> st2.written,
                       aligned    |-> offset = 0 /\ numFullBytes > 0,
                       oob        |-> st2.oob]]))

\* Appends bits to the stream. They must be MSB justified.
\* aliased: bits is the receiver's own backing store.
\* The outcome is "ok", "panic" (with the stream as the panic leaves it) or
\* "hang" (the growth loop never ends and the call never returns).
AppendBits(s, size, bits, aliased) ==
    IF Len(bits) < bytesNeededForBits(size)
    THEN [outcome |-> "panic", s |-> s, call |-> NoCall]
    ELSE \* neededSize, whether the store is replaced, and nextSize
         Bind(bytesNeededForBits(s.nextBitIndex + size), LAMBDA neededSize :
         Bind(NeedsGrow(s, neededSize), LAMBDA grow :
         Bind(IF grow THEN GrownSize(s, neededSize) ELSE Len(s.backingStore),
              LAMBDA nextSize :
             IF nextSize = Diverges
             THEN [outcome |-> "hang", s |-> s, call |-> NoCall]
             ELSE Bind(IF grow THEN GrowStore(s, nextSize) ELSE s.backingStore,
                       LAMBDA store0 :
                      Pack(s, size, bits, aliased /\ ~grow, neededSize, grow, store0)))))

\* ----------------------------------------------------------- the appends

\* what a handler did: its outcome, the receiver afterwards, and the
\* AppendBits calls it made
Done(r) == [outcome |-> r.outcome, s |-> r.s, calls |-> <<r.call>>]
Panics(s) == [outcome |-> "panic", s |-> s, calls |-> <<>>]

\* Appends a single bit to the stream; bit must be 0 or 1
AppendBit(s, bit) ==
    IF bit # 0 /\ bit # 1 THEN Panics(s)
    ELSE Bind(AppendBits(s, 1, IF bit = 0 THEN <<0>> ELSE <<128>>, FALSE),
              LAMBDA r : Done(r))

\* Appends a Uint64 to the stream
AppendUint64(s, value) ==
    Bind(PutUint64(value), LAMBDA content :
        Bind(AppendBits(s, 64, content, FALSE), LAMBDA r : Done(r)))

\* the mask without its - 1
UintMaskNoDec(size) == U64Shl(U64FromNat(1), size)

\* mask := ((uint64)(1) << size) - 1
UintMask(size) == U64Dec(U64Shl(U64FromNat(1), size))

\* Appends a Uint to the stream
AppendUint(s, value, size) ==
    IF size > 64 THEN Panics(s)
    ELSE IF U64And(value, UintMask(size)) # value THEN Panics(s)
    ELSE Bind(PutUint64(U64Shl(value, 64 - size)), LAMBDA content :
             Bind(AppendBits(s, size, content, FALSE), LAMBDA r : Done(r)))

\* Appends another bitstream to this one; self: other is the receiver
AppendBitstream(s, other, self) ==
    Bind(AppendBits(s, Size(other), other.backingStore, self), LAMBDA r : Done(r))

\* Returns a new BitStream that is a copy of s with other appended to it.
\* The record holds the new stream and both operands as the call leaves them.
Concat(s, other) ==
    Bind([nextBitIndex |-> s.nextBitIndex,
          storeIsNil   |-> FALSE,
          backingStore |-> CopyBytes(
              MakeBytes(bytesNeededForBits(Size(s) + Size(other))),
              s.backingStore)],
         LAMBDA result :
             Bind(AppendBitstream(result, other, FALSE), LAMBDA r :
                 [outcome |-> r.outcome, result |-> r.s, s |-> s,
                  other |-> other, calls |-> r.calls]))

\* ---------------------------------------------------------------- big.Int

\* value.BitLen()
RECURSIVE BitLen(_)
BitLen(value) == IF value = 0 THEN 0 ELSE 1 + BitLen(value \div 2)

\* FillBytes in little-endian order
FillBytesLittleEndian(value, n) == [k \in 1..n |-> (value \div (256 ^ (k - 1))) % 256]

\* value.FillBytes(buf) for a buffer of n bytes: big-endian, zero-extended
FillBytes(value, n) == [k \in 1..n |-> (value \div (256 ^ (n - k))) % 256]

\* new(big.Int).SetBytes(buf): the big-endian magnitude
RECURSIVE SetBytes(_)
SetBytes(buf) ==
    IF Len(buf) = 0 THEN 0
    ELSE 256 * SetBytes(SubSeq(buf, 1, Len(buf) - 1)) + buf[Len(buf)]

\* Appends a BigInt into the bitstream
AppendBigInt(s, value, nbits) ==
    IF BitLen(value) > nbits THEN Panics(s)
    ELSE Bind(FillBytes(value, (nbits + 7) \div 8), LAMBDA bytes :
             IF nbits % 8 = 0
             THEN Bind(AppendBits(s, nbits, bytes, FALSE), LAMBDA r : Done(r))
             ELSE Bind(AppendUint(s, U64FromNat(bytes[1]), nbits % 8), LAMBDA first :
                      IF first.outcome # "ok" THEN first
                      ELSE Bind(AppendBits(first.s, nbits - (nbits % 8),
                                           Tail(bytes), FALSE),
                                LAMBDA rest :
                                    [outcome |-> rest.outcome, s |-> rest.s,
                                     calls |-> first.calls \o <<rest.call>>])))

\* Extracts a BigInt from a BitStream
BigIntAt(s, index, nbits) ==
    LET offset == nbits % 8
    IN  IF offset = 0
        THEN Bind(BitsAt(s, index, nbits), LAMBDA r :
                 IF r.panic THEN ReadPanic ELSE Value(SetBytes(r.val)))
        ELSE Bind(UintAt(s, index, offset), LAMBDA firstByte :
                 IF firstByte.panic THEN ReadPanic
                 ELSE Bind(BitsAt(s, index + offset, nbits - offset),
                           LAMBDA remainingBytes :
                               IF remainingBytes.panic THEN ReadPanic
                               ELSE Value(SetBytes(<<U64ToByte(firstByte.val)>>
                                                   \o remainingBytes.val))))

\* ----------------------------------------------------------------- base32

\* "ABCDEFGHIJKLMNOPQRSTUVWXYZ234567" as character codes
base32Alphabet ==
    <<65, 66, 67, 68, 69, 70, 71, 72, 73, 74, 75, 76, 77, 78, 79, 80, 81, 82,
      83, 84, 85, 86, 87, 88, 89, 90, 50, 51, 52, 53, 54, 55>>

\* var base32Reversed map[byte]byte: nil, or a map
NilMap == [isNil |-> TRUE, m |-> <<>>]
MakeMap == [isNil |-> FALSE, m |-> <<>>]

\* base32Reversed[k] = v
MapPut(t, k, v) ==
    [t EXCEPT !.m = [x \in (DOMAIN t.m) \cup {k} |-> IF x = k THEN v ELSE t.m[x]]]

\* value, ok := base32Reversed[c]; a nil map has no key
MapHas(t, c) == c \in DOMAIN t.m
MapGet(t, c) == t.m[c]

\* the fill loop storing byte(i + 1)
FillReversedFromOne(t, lo, hi) ==
    [t EXCEPT !.m =
        [c \in (DOMAIN t.m) \cup {At(base32Alphabet, i) : i \in lo..(hi - 1)} |->
            IF c \in DOMAIN t.m THEN t.m[c]
            ELSE 1 + CHOOSE i \in lo..(hi - 1) : At(base32Alphabet, i) = c]]

\* for i := lo; i < hi; i++ { base32Reversed[base32Alphabet[i]] = byte(i) }
\* (the range is halved, which bounds the depth of the evaluation)
RECURSIVE FillReversed(_, _, _)
FillReversed(t, lo, hi) ==
    IF hi <= lo THEN t
    ELSE IF hi = lo + 1 THEN MapPut(t, At(base32Alphabet, lo), lo)
    ELSE Bind(FillReversed(t, lo, (lo + hi) \div 2), LAMBDA t2 :
             FillReversed(t2, (lo + hi) \div 2, hi))

\* ensureBase32Reversed, run without interruption
ensureBase32Reversed(t) ==
    IF t.isNil THEN FillReversed(MakeMap, 0, Len(base32Alphabet)) ELSE t

\* one pass of the loop of MarshalBase32, for the group at bit i
MarshalStep(s, i, result) ==
    IF result.panic THEN result
    ELSE Bind(UintAt(s, i, 5), LAMBDA value :
             IF value.panic THEN ReadPanic
             ELSE Value(Append(result.val, At(base32Alphabet, U64ToNat(value.val)))))

\* for i := 5 * lo; i < 5 * hi; i += 5, the passes in order (halved)
RECURSIVE MarshalLoop(_, _, _, _)
MarshalLoop(s, lo, hi, result) ==
    IF hi <= lo THEN result
    ELSE IF hi = lo + 1 THEN MarshalStep(s, 5 * lo, result)
    ELSE Bind(MarshalLoop(s, lo, (lo + hi) \div 2, result), LAMBDA result2 :
             MarshalLoop(s, (lo + hi) \div 2, hi, result2))

\* Marshals the bitstream as a base32 string
MarshalBase32(s) ==
    IF Size(s) % 5 # 0 THEN ReadPanic
    ELSE MarshalLoop(s, 0, (s.nextBitIndex + 4) \div 5, Value(<<>>))

\* one pass of the loop of UnmarshalBase32, for character i; r is the call
\* so far: "ok" while it runs, "error" once it has returned its error
UnmarshalStep(r, encoded, i, t) ==
    IF r.outcome # "ok" THEN r
    ELSE IF ~MapHas(t, At(encoded, i))
         THEN [r EXCEPT !.outcome = "error"]
         ELSE Bind(AppendUint(r.s, U64FromNat(MapGet(t, At(encoded, i))), 5), LAMBDA a :
                  [outcome |-> a.outcome, s |-> a.s, calls |-> r.calls \o a.calls])

\* for i := lo; i < hi; i++, the passes in order (halved)
RECURSIVE UnmarshalLoop(_, _, _, _, _)
UnmarshalLoop(r, encoded, lo, hi, t) ==
    IF hi <= lo THEN r
    ELSE IF hi = lo + 1 THEN UnmarshalStep(r, encoded, lo, t)
    ELSE Bind(UnmarshalLoop(r, encoded, lo, (lo + hi) \div 2, t), LAMBDA r2 :
             UnmarshalLoop(r2, encoded, (lo + hi) \div 2, hi, t))

\* Unmarshals a base32 string; t is base32Reversed as ensureBase32Reversed
\* leaves it
UnmarshalBase32(s, encoded, t) ==
    UnmarshalLoop([outcome |-> "ok", s |-> NewBitStream, calls |-> <<>>],
                  encoded, 0, Len(encoded), t)

\* ------------------------------------------------- what the caller passes

\* calls that return, made on one stream in one run
MaxOps == 2

\* the bits of the first size bits of an MSB-justified byte run
BitsOfBytes(size, bytes) ==
    [i \in 1..size |-> BitOf(bytes[((i - 1) \div 8) + 1], 7 - ((i - 1) % 8))]

\* the low size bits of a word, most significant first
BitsOfWord(word, size) == [i \in 1..size |-> word[size - i]]

\* a natural below 2^n as n binary digits, most significant first
BitsOfNat(v, n) == [i \in 1..n |-> (v \div (2 ^ (n - i))) % 2]

\* the bits a stream holds, as BitAt reads them
Bits(s) == [i \in 1..s.nextBitIndex |-> BitAt(s, i - 1).val]

\* the 16-byte message of the store-expansion scenario, with a bit pattern
Message == [k \in 1..16 |-> (k * 37 + 129) % 256]

\* AppendBit arguments: the two bits and one that is neither
BitInputs == {0, 1, 2}

\* AppendBits arguments <<size, bits>>: byte-aligned and not, with non-zero
\* bits past the declared count, with an extra byte, and with too few bytes
BitsInputs ==
    { <<0, <<>>>>, <<3, <<191>>>>, <<12, <<255, 255>>>>, <<6, <<176, 255>>>>,
      <<128, Message>>, <<9, <<165>>>> }

\* words for AppendUint and AppendUint64
AllOnes == U64Dec(U64Zero)
Pattern64 == Uint64(<<222, 173, 190, 239, 1, 35, 69, 103>>)

\* AppendUint arguments <<value, size>>: the boundary widths 0 and 64, a
\* width above 64, and values that do not fit their width
UintInputs ==
    { <<U64Zero, 0>>, <<U64FromNat(1), 0>>, <<U64FromNat(7), 3>>,
      <<U64FromNat(8), 3>>, <<U64FromNat(21), 5>>, <<U64FromNat(421), 9>>,
      <<U64Shr(AllOnes, 32), 32>>, <<U64Shr(Pattern64, 31), 33>>,
      <<Pattern64, 64>>, <<AllOnes, 63>>, <<U64FromNat(1), 65>> }

Uint64Inputs == {AllOnes}

\* AppendBigInt arguments <<value, nbits>>
BigIntInputs ==
    { <<0, 0>>, <<7, 2>>, <<7, 3>>, <<7, 7>>, <<7, 8>>, <<1445, 11>>,
      <<7, 19>>, <<256, 8>> }

\* other streams a caller may hold, each built by the package from a fresh
\* stream, with the bits it was built from
Others ==
    { [s |-> NewBitStream, bits |-> <<>>],
      [s |-> AppendBit(NewBitStream, 1).s, bits |-> <<1>>],
      [s |-> Bind(AppendBits(NewBitStream, 8, <<165>>, FALSE).s, LAMBDA x :
                 AppendUint(x, U64FromNat(3), 4).s),
       bits |-> <<1, 0, 1, 0, 0, 1, 0, 1, 0, 0, 1, 1>>],
      [s |-> Bind(AppendUint(NewBitStream, U64FromNat(21), 5).s, LAMBDA x :
                 AppendUint(x, U64FromNat(30), 5).s),
       bits |-> <<1, 0, 1, 0, 1, 1, 1, 1, 1, 0>>] }

\* base32 texts: empty, valid, and with a character outside the alphabet
\* ("", "H7", "BaC")
Texts == { <<>>, <<72, 55>>, <<66, 97, 67>> }

\* the position of a character of the alphabet in it
AlphabetIndex(c) == CHOOSE i \in 0..(Len(base32Alphabet) - 1) : At(base32Alphabet, i) = c

\* the bits a text stands for: five per character, up to the first character
\* outside the alphabet
RECURSIVE TextBits(_)
TextBits(text) ==
    IF text = <<>> \/ \A i \in 0..(Len(base32Alphabet) - 1) : At(base32Alphabet, i) # Head(text)
    THEN <<>>
    ELSE BitsOfNat(AlphabetIndex(Head(text)), 5) \o TextBits(Tail(text))

\* the texts MarshalBase32 gives for the streams the caller holds: the
\* stream s holding the bits sbits, and the other streams
Marshalled(s, sbits) ==
    { p \in { [text |-> MarshalBase32(x.s), from |-> x.s, bits |-> x.bits] :
                x \in {[s |-> s, bits |-> sbits]} \cup Others } : ~p.text.panic }

\* read positions around the end of a stream of n bits, and read widths
ReadIndices(n) == {0, n, n + 1} \cup (IF n > 0 THEN {n - 1} ELSE {})
ReadSizes == {0, 1, 64, 65}

\* the goroutines of the concurrent first use, and the texts they decode
\* ("A7", "7")
Goroutines == {"g1", "g2"}
GoTexts == { <<65, 55>>, <<55>> }

\* -------------------------------------------------------- the state machine

VARIABLES
    stream,          \* the BitStream the caller works on
    appended,        \* the bits appended to it, in append order
    nops,            \* calls made so far that returned
    last,            \* the last call: its arguments, outcome and receiver before
    base32Reversed,  \* the package-level reverse-lookup table
    builds,          \* how many times the table was allocated
    gpc,             \* per goroutine: where it is in UnmarshalBase32
    gtext,           \* per goroutine: the text it decodes
    gi,              \* per goroutine: i of the fill loop, then of the decode loop
    gstream,         \* per goroutine: its own BitStream
    gerr,            \* per goroutine: whether the call returned an error
    glooked          \* per goroutine: whether it looked up in a partial table

seqVars == <<stream, appended, nops, last>>
goVars == <<builds, gpc, gtext, gi, gstream, gerr, glooked>>
vars == <<stream, appended, nops, last, base32Reversed,
          builds, gpc, gtext, gi, gstream, gerr, glooked>>

NoArgs ==
    [op |-> "none", outcome |-> "ok", pre |-> NewBitStream, calls |-> <<>>,
     size |-> 0, index |-> 0, value |-> 0, word |-> U64Zero, bits |-> <<>>,
     a |-> NewBitStream, b |-> NewBitStream, aAfter |-> NewBitStream,
     bAfter |-> NewBitStream, self |-> FALSE, text |-> <<>>,
     marshalled |-> FALSE]

Init ==
    /\ stream = NewBitStream
    /\ appended = <<>>
    /\ nops = 0
    /\ last = NoArgs
    /\ base32Reversed = NilMap
    /\ builds = 0
    /\ gpc = [g \in Goroutines |-> "idle"]
    /\ gtext = [g \in Goroutines |-> <<>>]
    /\ gi = [g \in Goroutines |-> 0]
    /\ gstream = [g \in Goroutines |-> NewBitStream]
    /\ gerr = [g \in Goroutines |-> FALSE]
    /\ glooked = [g \in Goroutines |-> FALSE]

\* a call can be made: the previous one returned (a panic ends the program,
\* a call that hangs never returns)
Ready == nops < MaxOps /\ last.outcome \in {"ok", "error"}

\* the effect of an appending call with result r and arguments args
Commit(op, r, args, newBits) ==
    /\ stream' = r.s
    /\ appended' = IF r.outcome = "ok" THEN appended \o newBits ELSE appended
    /\ nops' = IF r.outcome = "ok" THEN nops + 1 ELSE nops
    /\ last' = [args EXCEPT !.op = op, !.outcome = r.outcome, !.pre = stream,
                            !.calls = r.calls]
    /\ UNCHANGED <<base32Reversed, goVars>>

DoAppendBit ==
    /\ Ready
    /\ \E bit \in BitInputs :
        \E r \in {AppendBit(stream, bit)} :
            Commit("AppendBit", r,
                   [NoArgs EXCEPT !.value = bit, !.size = 1], <<bit>>)

DoAppendBits ==
    /\ Ready
    /\ \E in \in BitsInputs :
        \E r \in {Done(AppendBits(stream, in[1], in[2], FALSE))} :
            Commit("AppendBits", r,
                   [NoArgs EXCEPT !.size = in[1], !.bits = in[2]],
                   BitsOfBytes(in[1], in[2]))

DoAppendUint ==
    /\ Ready
    /\ \E in \in UintInputs :
        \E r \in {AppendUint(stream, in[1], in[2])} :
            Commit("AppendUint", r,
                   [NoArgs EXCEPT !.word = in[1], !.size = in[2]],
                   BitsOfWord(in[1], in[2]))

DoAppendUint64 ==
    /\ Ready
    /\ \E value \in Uint64Inputs :
        \E r \in {AppendUint64(stream, value)} :
            Commit("AppendUint64", r,
                   [NoArgs EXCEPT !.word = value, !.size = 64],
                   BitsOfWord(value, 64))

DoAppendBigInt ==
    /\ Ready
    /\ \E in \in BigIntInputs :
        \E r \in {AppendBigInt(stream, in[1], in[2])} :
            Commit("AppendBigInt", r,
                   [NoArgs EXCEPT !.value = in[1], !.size = in[2]],
                   BitsOfNat(in[1], in[2]))

\* stream.AppendBitstream(o) for another stream, and for the stream itself
DoAppendBitstream ==
    /\ Ready
    /\ \/ \E o \in Others :
            \E r \in {AppendBitstream(stream, o.s, FALSE)} :
                Commit("AppendBitstream", r,
                       [NoArgs EXCEPT !.b = o.s, !.size = Len(o.bits)], o.bits)
       \/ \E r \in {AppendBitstream(stream, stream, TRUE)} :
            Commit("AppendBitstream", r,
                   [NoArgs EXCEPT !.b = stream, !.size = Len(appended),
                                  !.self = TRUE],
                   appended)

\* the effect of stream = a.Concat(b): the caller keeps the new stream
CommitConcat(a, b, abits, bbits) ==
    \E r \in {Concat(a, b)} :
        /\ stream' = IF r.outcome = "ok" THEN r.result ELSE stream
        /\ appended' = IF r.outcome = "ok" THEN abits \o bbits ELSE appended
        /\ nops' = IF r.outcome = "ok" THEN nops + 1 ELSE nops
        /\ last' = [NoArgs EXCEPT !.op = "Concat", !.outcome = r.outcome,
                                  !.pre = stream, !.calls = r.calls,
                                  !.a = a, !.b = b,
                                  !.aAfter = r.s, !.bAfter = r.other]
        /\ UNCHANGED <<base32Reversed, goVars>>

DoConcat ==
    /\ Ready
    /\ \/ \E o \in Others : CommitConcat(stream, o.s, appended, o.bits)
       \/ \E o \in Others : CommitConcat(o.s, stream, o.bits, appended)
       \/ CommitConcat(stream, stream, appended, appended)

\* stream.UnmarshalBase32(text), for a literal text or for what
\* MarshalBase32 returned for a stream the caller holds
CommitUnmarshal(text, from, marshalled, textBits) ==
    \E t \in {ensureBase32Reversed(base32Reversed)} :
    \E r \in {UnmarshalBase32(stream, text, t)} :
        /\ stream' = r.s
        /\ appended' = textBits
        /\ nops' = nops + 1
        /\ base32Reversed' = t
        /\ last' = [NoArgs EXCEPT !.op = "UnmarshalBase32",
                                  !.outcome = r.outcome, !.pre = stream,
                                  !.calls = r.calls, !.text = text,
                                  !.a = from, !.marshalled = marshalled]
        /\ UNCHANGED goVars

DoUnmarshalBase32 ==
    /\ Ready
    /\ \/ \E text \in Texts :
            CommitUnmarshal(text, NewBitStream, FALSE, TextBits(text))
       \/ \E m \in Marshalled(stream, appended) :
            CommitUnmarshal(m.text.val, m.from, TRUE, m.bits)

\* a read past the end of the stream (or of more than 64 bits as a uint)
ReadsPastEnd(op, n, index, size) ==
    \/ index + size > n
    \/ op = "BitAt" /\ index >= n
    \/ op = "UintAt" /\ size > WordBits

\* a read that panics ends the program; one that returns changes nothing
\* (last keeps a read that returned only if it read past the end)
CommitRead(op, r, index, size) ==
    /\ last' = IF r.panic \/ ReadsPastEnd(op, Size(stream), index, size)
               THEN [NoArgs EXCEPT !.op = op,
                                   !.outcome = IF r.panic THEN "panic" ELSE "ok",
                                   !.pre = stream, !.index = index,
                                   !.size = size]
               ELSE last
    /\ UNCHANGED <<stream, appended, nops, base32Reversed, goVars>>

DoBitAt ==
    /\ Ready
    /\ \E index \in ReadIndices(Size(stream)) :
        \E r \in {BitAt(stream, index)} : CommitRead("BitAt", r, index, 1)

DoBitsAt ==
    /\ Ready
    /\ \E index \in ReadIndices(Size(stream)), size \in ReadSizes :
        \E r \in {BitsAt(stream, index, size)} :
            CommitRead("BitsAt", r, index, size)

DoUintAt ==
    /\ Ready
    /\ \E index \in ReadIndices(Size(stream)), size \in ReadSizes :
        \E r \in {UintAt(stream, index, size)} :
            CommitRead("UintAt", r, index, size)

Next ==
    \/ DoAppendBit
    \/ DoAppendBits
    \/ DoAppendUint
    \/ DoAppendUint64
    \/ DoAppendBigInt
    \/ DoAppendBitstream
    \/ DoConcat
    \/ DoUnmarshalBase32
    \/ DoBitAt
    \/ DoBitsAt
    \/ DoUintAt

Spec == Init /\ [][Next]_vars

\* ------------------------------------------- concurrent first use of base32

\* Two goroutines call UnmarshalBase32, each on a BitStream of its own, as
\* the first users of base32Reversed. Nothing orders their accesses to the
\* table, so every statement that touches it is a step of its own.

\* the table holds every character of the alphabet
TableFull(t) == ~t.isNil /\ \A i \in 0..(Len(base32Alphabet) - 1) : MapHas(t, At(base32Alphabet, i))

\* s.backingStore = nil; s.nextBitIndex = 0
GoStart(g) ==
    /\ gpc[g] = "idle"
    /\ \E text \in GoTexts : gtext' = [gtext EXCEPT ![g] = text]
    /\ gstream' = [gstream EXCEPT ![g] = NewBitStream]
    /\ gpc' = [gpc EXCEPT ![g] = "check"]
    /\ UNCHANGED <<seqVars, base32Reversed, builds, gi, gerr, glooked>>

\* if base32Reversed == nil
GoCheck(g) ==
    /\ gpc[g] = "check"
    /\ gpc' = [gpc EXCEPT ![g] = IF base32Reversed.isNil THEN "make" ELSE "decode"]
    /\ gi' = [gi EXCEPT ![g] = 0]
    /\ UNCHANGED <<seqVars, base32Reversed, builds, gtext, gstream, gerr, glooked>>

\* base32Reversed = make(map[byte]byte)
GoMake(g) ==
    /\ gpc[g] = "make"
    /\ base32Reversed' = MakeMap
    /\ builds' = builds + 1
    /\ gi' = [gi EXCEPT ![g] = 0]
    /\ gpc' = [gpc EXCEPT ![g] = "fill"]
    /\ UNCHANGED <<seqVars, gtext, gstream, gerr, glooked>>

\* one pass of the fill loop: base32Reversed[base32Alphabet[i]] = byte(i),
\* on whatever map the variable holds by now
GoFill(g) ==
    /\ gpc[g] = "fill"
    /\ IF gi[g] < Len(base32Alphabet)
       THEN /\ base32Reversed' = MapPut(base32Reversed, At(base32Alphabet, gi[g]), gi[g])
            /\ gi' = [gi EXCEPT ![g] = @ + 1]
            /\ gpc' = gpc
       ELSE /\ gpc' = [gpc EXCEPT ![g] = "decode"]
            /\ gi' = [gi EXCEPT ![g] = 0]
            /\ base32Reversed' = base32Reversed
    /\ UNCHANGED <<seqVars, builds, gtext, gstream, gerr, glooked>>

\* one pass of the decoding loop: the lookup, then the error return or
\* AppendUint(uint64(value), 5) on the goroutine's own stream
GoDecode(g) ==
    /\ gpc[g] = "decode"
    /\ IF gi[g] >= Len(gtext[g])
       THEN /\ gpc' = [gpc EXCEPT ![g] = "done"]
            /\ UNCHANGED <<gi, gstream, gerr, glooked>>
       ELSE /\ glooked' = [glooked EXCEPT ![g] = @ \/ ~TableFull(base32Reversed)]
            /\ IF ~MapHas(base32Reversed, At(gtext[g], gi[g]))
               THEN /\ gerr' = [gerr EXCEPT ![g] = TRUE]
                    /\ gpc' = [gpc EXCEPT ![g] = "done"]
                    /\ UNCHANGED <<gi, gstream>>
               ELSE /\ gstream' = [gstream EXCEPT ![g] =
                          AppendUint(@, U64FromNat(MapGet(base32Reversed,
                                                          At(gtext[g], gi[g]))), 5).s]
                    /\ gi' = [gi EXCEPT ![g] = @ + 1]
                    /\ UNCHANGED <<gerr, gpc>>
    /\ UNCHANGED <<seqVars, base32Reversed, builds, gtext>>

\* a map access while another goroutine writes the map: the runtime may
\* stop the whole process ("fatal error: concurrent map writes" / "read and
\* map write"), or may let the access through (GoFill, GoDecode)
GoFatal(g) ==
    /\ gpc[g] \in {"fill", "decode"}
    /\ gpc[g] = "fill" => gi[g] < Len(base32Alphabet)
    /\ gpc[g] = "decode" => gi[g] < Len(gtext[g])
    /\ \E h \in Goroutines \ {g} : gpc[h] = "fill" /\ gi[h] < Len(base32Alphabet)
    /\ gpc' = [h \in Goroutines |-> "fatal"]
    /\ UNCHANGED <<seqVars, base32Reversed, builds, gtext, gi, gstream, gerr, glooked>>

NextConc ==
    \E g \in Goroutines :
        \/ GoStart(g)
        \/ GoCheck(g)
        \/ GoMake(g)
        \/ GoFill(g)
        \/ GoDecode(g)
        \/ GoFatal(g)

SpecConc == Init /\ [][NextConc]_vars


\* ------------------------------------------------------------- the claims

AppendOps ==
    {"AppendBit", "AppendBits", "AppendUint", "AppendUint64", "AppendBigInt",
     "AppendBitstream"}

\* bit i of a byte run, most significant bit of each byte first
BitOfRun(bytes, i) == BitOf(bytes[(i \div 8) + 1], 7 - (i % 8))

\* the characters of the alphabet
AlphabetChars == {At(base32Alphabet, i) : i \in 0..(Len(base32Alphabet) - 1)}

\* C1: after any sequence of successful appends the size is the number of
\* bits appended, BitAt(i) and the i-th character of String() are the i-th
\* appended bit, and the last append added its bit count and left the bits
\* stored before it as they were.
C1_AppendsConcatenate ==
    /\ Size(stream) = Len(appended)
    /\ \A i \in 0..(Len(appended) - 1) : BitAt(stream, i) = Value(appended[i + 1])
    /\ String(stream) = [k \in 1..Len(appended) |-> 48 + appended[k]]
    /\ (last.op \in AppendOps /\ last.outcome = "ok") =>
        /\ Size(stream) = Size(last.pre) + last.size
        /\ \A i \in 0..(Size(last.pre) - 1) : BitAt(stream, i) = BitAt(last.pre, i)

\* two appends were made, the second of more than a byte at a bit offset
\* other than 0
C1_Witness ==
    /\ nops = 2
    /\ last.op = "AppendBits" /\ last.outcome = "ok"
    /\ last.size > 8 /\ Size(last.pre) % 8 # 0

\* C2: AppendUint(v, size) with size <= 64 and v < 2^size is accepted, and
\* UintAt at the old length with the same size then returns v, the widths 0
\* and 64 included.
C2_UintRoundTrip ==
    (/\ last.op = "AppendUint"
     /\ last.size <= WordBits
     /\ \A i \in 0..(WordBits - 1) : i >= last.size => last.word[i] = 0)
    => /\ last.outcome = "ok"
       /\ UintAt(stream, Size(last.pre), last.size) = Value(last.word)

\* a 64-bit value with high and low bits set went in at a bit offset other
\* than 0
C2_Witness ==
    /\ last.op = "AppendUint" /\ last.outcome = "ok"
    /\ last.size = WordBits /\ last.word = Pattern64
    /\ Size(last.pre) % 8 # 0

\* C3: AppendBigInt(v, nbits) with v < 2^nbits is accepted, grows the stream
\* by nbits bits that are v in binary left-padded with zeros, and BigIntAt
\* at the old length with nbits returns v.
C3_BigIntRoundTrip ==
    (last.op = "AppendBigInt" /\ last.value < 2 ^ last.size)
    => /\ last.outcome = "ok"
       /\ Size(stream) = Size(last.pre) + last.size
       /\ \A i \in 1..last.size :
            BitAt(stream, Size(last.pre) + i - 1) =
                Value(BitsOfNat(last.value, last.size)[i])
       /\ BigIntAt(stream, Size(last.pre), last.size) = Value(last.value)

\* a value went in with a width that is no multiple of 8 and more than a
\* byte, at a bit offset other than 0
C3_Witness ==
    /\ last.op = "AppendBigInt" /\ last.outcome = "ok"
    /\ last.size % 8 # 0 /\ last.size > 8 /\ last.value > 255
    /\ Size(last.pre) % 8 # 0

\* C4: MarshalBase32 of a stream whose length is a multiple of 5 gives
\* length/5 characters of the alphabet, and UnmarshalBase32 of that text on
\* any receiver returns no error and leaves the receiver with the length and
\* the bits of the marshalled stream.
C4_Base32RoundTrip ==
    /\ Size(stream) % 5 = 0 =>
        \E m \in {MarshalBase32(stream)} :
            /\ ~m.panic
            /\ Len(m.val) * 5 = Size(stream)
            /\ \A k \in 1..Len(m.val) : m.val[k] \in AlphabetChars
    /\ (last.op = "UnmarshalBase32" /\ last.marshalled) =>
        /\ last.outcome = "ok"
        /\ Size(stream) = Size(last.a)
        /\ \A i \in 0..(Size(last.a) - 1) : BitAt(stream, i) = BitAt(last.a, i)

\* the text of a non-empty stream was decoded into a receiver that held
\* other bits
C4_Witness ==
    /\ last.op = "UnmarshalBase32" /\ last.marshalled /\ last.outcome = "ok"
    /\ Size(last.a) >= 10
    /\ Size(last.pre) > 0 /\ last.pre # last.a

\* C5: a.Concat(b) returns a new stream of length a.Size() + b.Size() whose
\* bits are a's then b's, and leaves a and b as they were, streams of
\* length 0 included.
C5_ConcatCorrect ==
    last.op = "Concat" =>
        /\ last.outcome = "ok"
        /\ Size(stream) = Size(last.a) + Size(last.b)
        /\ \A i \in 0..(Size(last.a) - 1) : BitAt(stream, i) = BitAt(last.a, i)
        /\ \A i \in 0..(Size(last.b) - 1) :
            BitAt(stream, Size(last.a) + i) = BitAt(last.b, i)
        /\ Size(last.aAfter) = Size(last.a) /\ Bits(last.aAfter) = Bits(last.a)
        /\ Size(last.bAfter) = Size(last.b) /\ Bits(last.bAfter) = Bits(last.b)

\* C6: a call that breaks its contract panics, and a call that panics
\* leaves the length and the stored bits of the stream as they were (so
\* AppendBigInt never fails after its first partial append).
C6_ViolationsAbort ==
    /\ (\/ last.op = "AppendBits" /\ Len(last.bits) < (last.size + 7) \div 8
        \/ last.op = "AppendUint" /\
            (last.size > WordBits \/
             \E i \in 0..(WordBits - 1) : i >= last.size /\ last.word[i] = 1)
        \/ last.op = "AppendBit" /\ last.value \notin {0, 1}
        \/ last.op = "AppendBigInt" /\ last.value >= 2 ^ last.size
        \/ last.op = "BitAt" /\ last.index >= Size(last.pre)
        \/ last.op \in {"BitsAt", "UintAt"} /\
            last.index + last.size > Size(last.pre))
       => last.outcome = "panic"
    /\ last.outcome = "panic" =>
        /\ Size(stream) = Size(last.pre)
        /\ Bits(stream) = Bits(last.pre)
        /\ ToBytes(stream) = ToBytes(last.pre)

\* AppendBigInt was refused, with a width that is no multiple of 8, on a
\* stream that held bits
C6_Witness ==
    /\ last.op = "AppendBigInt" /\ last.outcome = "panic"
    /\ last.size % 8 # 0 /\ Size(last.pre) > 0
    /\ last.value >= 2 ^ last.size

\* C7: ToBytes returns ceil(length/8) bytes whose first length bits are the
\* stream's content and whose other bits are zero, and the backing store
\* holds no set bit at an index >= length.
C7_ToBytesZeroPadded ==
    /\ Len(ToBytes(stream)) = (Size(stream) + 7) \div 8
    /\ \A i \in 0..(Size(stream) - 1) :
        BitOfRun(ToBytes(stream), i) = appended[i + 1]
    /\ \A i \in Size(stream)..(8 * Len(ToBytes(stream)) - 1) :
        BitOfRun(ToBytes(stream), i) = 0
    /\ \A i \in Size(stream)..(8 * Len(stream.backingStore) - 1) :
        BitOfRun(stream.backingStore, i) = 0

\* AppendBits took 12 bits of two all-ones bytes, starting and ending inside
\* a byte
C7_Witness ==
    /\ last.op = "AppendBits" /\ last.outcome = "ok"
    /\ last.size = 12 /\ last.bits = <<255, 255>>
    /\ Size(last.pre) % 8 # 0 /\ Size(stream) % 8 # 0

\* C8: every call returns or panics; none stays in the growth loop of
\* AppendBits for ever.
C8_EveryCallReturns == last.outcome # "hang"

\* C9: in every AppendBits call that gets past its input check and its
\* growth step, the capacity after the growth step exceeds the bytes needed,
\* the bytes held before are kept, and every byte index written is below the
\* capacity. (A call that never leaves the growth loop is C8's matter.)
C9_GrowthLeavesRoom ==
    \A k \in 1..Len(last.calls) :
        last.calls[k].entered =>
            /\ last.calls[k].capacity > last.calls[k].neededSize
            /\ last.calls[k].preserved
            /\ ~last.calls[k].oob
            /\ \A idx \in last.calls[k].written : idx < last.calls[k].capacity

\* Concat gave its result a store of exactly the bytes needed, and its
\* AppendBits call wrote whole bytes from a byte-aligned length, index
\* nextByteIndex + 1 included
C9_Witness ==
    /\ last.op = "Concat" /\ last.outcome = "ok"
    /\ Len(last.calls) = 1
    /\ last.calls[1].entered /\ last.calls[1].aligned /\ last.calls[1].grew
    /\ Size(last.a) > 0
    /\ (Size(last.a) \div 8) + 1 \in last.calls[1].written

\* C10: with two goroutines decoding as the first users of the table, the
\* table is built once, no lookup sees a table that is not full, no
\* character of the alphabet is reported invalid, and each call that
\* returns has decoded its text.
C10_TableBuiltOnce ==
    /\ builds <= 1
    /\ \A g \in Goroutines : ~glooked[g] /\ ~gerr[g]
    /\ \A g \in Goroutines : gpc[g] = "done" => Bits(gstream[g]) = TextBits(gtext[g])
    /\ \A g \in Goroutines : gpc[g] # "fatal"

=============================================================================
